---- MODULE Spec2Model ----
(***************************************************************************)
(* Verification model of the pgx database/sql adapter (package stdlib).    *)
(*                                                                         *)
(* Four state machines share this module:                                  *)
(*   Spec      - the session borrow protocol (AcquireConn / ReleaseConn)   *)
(*               running as concurrent callers over a database/sql pool;   *)
(*   SpecCfg   - the named-configuration registry of the Driver and the    *)
(*               connectors that read it;                                  *)
(*   SpecConn  - one Conn (connection adapter) with its native session,    *)
(*               and the Rows cursor of its current query;                 *)
(*   SpecRows  - the Rows cursor alone, over every shape of result.        *)
(* SpecLocks runs the first two side by side for the claims about both.    *)
(* Every specification initialises all variables and leaves the variables  *)
(* of the other machines unchanged.                                        *)
(***************************************************************************)
EXTENDS Naturals, Integers, Sequences, FiniteSets, TLC

VARIABLES
    \* ---- borrow protocol ----
    pool,          \* database/sql pool: state of each driver connection
    sess,          \* native session (*pgx.Conn) behind each pgx connection
    txs,           \* the *sql.Tx objects created so far, by id
    fakeTxMutex,   \* holder of fakeTxMutex, or NoProc
    fakeTxConns,   \* map[*pgx.Conn]*sql.Tx
    pc,            \* position of each caller inside AcquireConn / ReleaseConn
    lconn,         \* the local variable conn of the call in progress
    ltx,           \* the local variable tx of the call in progress
    lok,           \* the local variable ok of ReleaseConn
    lforced,       \* whether the ReleaseConn in progress closed the session it was given
    lastRet,       \* the AcquireConn / ReleaseConn call that returned last, and its error
    nAcq,          \* per session: borrows recorded in the registry so far
    nRel,          \* per session: ReleaseConn calls that returned nil so far
    \* ---- configuration registry ----
    configs,       \* Driver.configs: map[string]*pgx.ConnConfig
    configMutex,   \* holder of Driver.configMutex, or NoProc
    cpc,           \* position of each caller inside a registry operation
    cloc,          \* locals of the registry operation in progress
    clast,         \* the registry or connect call that returned last, and its result
    nReg,          \* number of registerConnConfig calls so far
    \* ---- connection adapter and row cursor ----
    conn,          \* the Conn and its native session
    call,          \* the adapter call that finished last
    cur            \* the Rows cursor of the last QueryContext, and its iterator

borrowVars == <<pool, sess, txs, fakeTxMutex, fakeTxConns, pc, lconn, ltx, lok, lforced,
                lastRet, nAcq, nRel>>
cfgVars    == <<configs, configMutex, cpc, cloc, clast, nReg>>
connVars   == <<conn, call, cur>>
vars       == <<borrowVars, cfgVars, connVars>>

(***************************************************************************)
(* Bounds of the model.                                                    *)
(***************************************************************************)
MaxTx == 2          \* sql.Tx objects created in one behaviour
MaxRegs == 3        \* registerConnConfig calls in one behaviour
MaxRows == 2        \* rows in one query result
MaxExtraNext == 1   \* Rows.Next calls after the cursor reported its end
MaxPrepares == 2    \* PrepareContext calls that reach the native session
MaxCols == 2        \* columns of one query result

Procs == {1, 2}                 \* concurrent callers (goroutines)
NoProc == 0
PgxConns == {"s1", "s2"}        \* pool connections backed by this adapter
ForeignConns == {"f1"}          \* pool connection of some other driver
Conns == PgxConns \cup ForeignConns
DBs == {"pgxdb", "otherdb"}     \* one *sql.DB per driver
NoConn == "nil"                 \* the nil *pgx.Conn
NoTx == 0                       \* the nil *sql.Tx

ConnsOf(db) == IF db = "pgxdb" THEN PgxConns ELSE ForeignConns

(***************************************************************************)
(* Error values.                                                           *)
(***************************************************************************)
Nil == "nil"
ErrBadConn == "driver.ErrBadConn"
ErrNotPgx == "not pgx *sql.DB"
ErrNotAcquired == "can't release conn that is not acquired"
ErrTxDone == "sql.ErrTxDone"
ErrConnect == "connect failed"
ErrRetryable == "native error, safe to retry"
ErrOther == "native error"
ErrTimeout == "native timeout"
ErrScan == "scan field failed"
ErrParse == "invalid dsn"
ErrHook == "AfterConnect failed"
EOF == "io.EOF"
ErrPanic == "panic: nil pointer dereference"

(***************************************************************************)
(* Conn.BeginTx as a function of what it reads: whether the native session *)
(* reports itself closed, whether the context carries the borrow marker    *)
(* (ctxKeyFakeTx), the requested options, and the outcome the native       *)
(* begin would have.  The result names the error returned, the kind of     *)
(* driver.Tx returned, whether the marker's slot was written, how many     *)
(* native begin calls were made and the native options passed.             *)
(***************************************************************************)
LevelDefault == 0
LevelReadUncommitted == 1
LevelReadCommitted == 2
LevelWriteCommitted == 3
LevelRepeatableRead == 4
LevelSnapshot == 5
LevelSerializable == 6
LevelLinearizable == 7
IsoLevels == 0..8     \* every sql.IsolationLevel, and one value beyond them

\* errors.Errorf("unsupported isolation: %v", opts.Isolation)
ErrUnsupportedIsolation(iso) ==
    CASE iso = 0 -> "unsupported isolation: 0"
      [] iso = 1 -> "unsupported isolation: 1"
      [] iso = 2 -> "unsupported isolation: 2"
      [] iso = 3 -> "unsupported isolation: 3"
      [] iso = 4 -> "unsupported isolation: 4"
      [] iso = 5 -> "unsupported isolation: 5"
      [] iso = 6 -> "unsupported isolation: 6"
      [] iso = 7 -> "unsupported isolation: 7"
      [] OTHER -> "unsupported isolation: 8"

PgxIsoLevel(iso) ==
    CASE iso = LevelDefault -> ""
      [] iso = LevelReadUncommitted -> "read uncommitted"
      [] iso = LevelReadCommitted -> "read committed"
      [] iso \in {LevelRepeatableRead, LevelSnapshot} -> "repeatable read"
      [] iso = LevelSerializable -> "serializable"
      [] OTHER -> "unsupported"

NoBegin(err) ==
    [err |-> err, tx |-> "none", wrote |-> FALSE, nativeBegin |-> 0,
     isoLevel |-> "", accessMode |-> ""]

\* (mutant) the native begin is called before the isolation level is checked
BeginTx_NativeFirst(closed, hasMarker, iso, readOnly, nativeErr) ==
    IF closed THEN NoBegin(ErrBadConn)
    ELSE IF hasMarker
    THEN [err |-> Nil, tx |-> "fakeTx", wrote |-> TRUE, nativeBegin |-> 0,
          isoLevel |-> "", accessMode |-> ""]
    ELSE IF PgxIsoLevel(iso) = "unsupported"
    THEN [NoBegin(ErrUnsupportedIsolation(iso)) EXCEPT !.nativeBegin = 1]
    ELSE [err |-> nativeErr,
          tx |-> IF nativeErr = Nil THEN "wrapTx" ELSE "none",
          wrote |-> FALSE, nativeBegin |-> 1,
          isoLevel |-> PgxIsoLevel(iso),
          accessMode |-> IF readOnly THEN "read only" ELSE ""]

\* lines 290-325
BeginTx(closed, hasMarker, iso, readOnly, nativeErr) ==
    IF closed THEN NoBegin(ErrBadConn)
    ELSE IF hasMarker
    THEN [err |-> Nil, tx |-> "fakeTx", wrote |-> TRUE, nativeBegin |-> 0,
          isoLevel |-> "", accessMode |-> ""]
    ELSE IF PgxIsoLevel(iso) = "unsupported"
    THEN NoBegin(ErrUnsupportedIsolation(iso))
    ELSE [err |-> nativeErr,
          tx |-> IF nativeErr = Nil THEN "wrapTx" ELSE "none",
          wrote |-> FALSE, nativeBegin |-> 1,
          isoLevel |-> PgxIsoLevel(iso),
          accessMode |-> IF readOnly THEN "read only" ELSE ""]

\* fakeTx.Commit and fakeTx.Rollback: the error returned and the native calls made.
FakeTxCommit == [err |-> Nil, native |-> 0]
FakeTxRollback == [err |-> Nil, native |-> 0]

(***************************************************************************)
(* The database/sql pool and its Tx, as far as AcquireConn and ReleaseConn *)
(* rely on them: BeginTx takes a free connection (or opens one), discards  *)
(* a connection whose driver answers ErrBadConn and tries again; a Tx      *)
(* keeps its connection out of the free set until it is rolled back; a     *)
(* second Rollback answers ErrTxDone and touches nothing.                  *)
(***************************************************************************)
FreshSession == [closed |-> FALSE, busy |-> FALSE, txStatus |-> "I"]
TxStatuses == {"I", "T"}

Free(db) == {c \in ConnsOf(db) : pool[c] \in {"idle", "unopened"}}

TxIds == 1..Len(txs)

\* Tx.Rollback of tx t: the driver transaction's Rollback runs once, the
\* connection goes back to the free set.
TxRollbackErr(t) ==
    IF txs[t].done THEN ErrTxDone
    ELSE IF txs[t].kind = "fakeTx" THEN FakeTxRollback.err ELSE Nil
TxsAfterRollback(t) ==
    IF txs[t].done THEN txs
    ELSE [txs EXCEPT ![t].done = TRUE, ![t].rollbacks = @ + 1]
PoolAfterRollback(t) ==
    IF txs[t].done THEN pool ELSE [pool EXCEPT ![txs[t].conn] = "idle"]

OpenTxOn(c) == {t \in TxIds : txs[t].conn = c /\ ~txs[t].done}

Insert(m, k, v) == [x \in DOMAIN m \cup {k} |-> IF x = k THEN v ELSE m[x]]
Delete(m, k) == [x \in DOMAIN m \ {k} |-> m[x]]

InitBorrow ==
    /\ pool = [c \in Conns |-> "unopened"]
    /\ sess = [c \in PgxConns |-> FreshSession]
    /\ txs = <<>>
    /\ fakeTxMutex = NoProc
    /\ fakeTxConns = <<>>
    /\ pc = [p \in Procs |-> "idle"]
    /\ lconn = [p \in Procs |-> NoConn]
    /\ ltx = [p \in Procs |-> NoTx]
    /\ lok = [p \in Procs |-> FALSE]
    /\ lforced = [p \in Procs |-> FALSE]
    /\ lastRet = [op |-> "none", err |-> Nil]
    /\ nAcq = [c \in PgxConns |-> 0]
    /\ nRel = [c \in PgxConns |-> 0]

Return(p, op, err) ==
    /\ lastRet' = [op |-> op, err |-> err]
    /\ lconn' = [lconn EXCEPT ![p] = NoConn]
    /\ ltx' = [ltx EXCEPT ![p] = NoTx]
    /\ lok' = [lok EXCEPT ![p] = FALSE]
    /\ lforced' = [lforced EXCEPT ![p] = FALSE]

(***************************************************************************)
(* AcquireConn, lines 697-702: db.BeginTx(ctx, nil) with the marker in     *)
(* ctx.  One step is one attempt of the pool on one connection.            *)
(***************************************************************************)
\* the pool's connection c answers ErrBadConn (its session is closed): the
\* pool discards it and tries again
AcquireConn_BadConn(p, db) ==
    /\ pc[p] \in {"idle", "acq_begin"}
    /\ Len(txs) < MaxTx
    /\ \E c \in Free(db) :
        /\ pool[c] = "idle"
        /\ c \in PgxConns
        /\ BeginTx(sess[c].closed, TRUE, LevelDefault, FALSE, Nil).err = ErrBadConn
        /\ pool' = [pool EXCEPT ![c] = "gone"]
    /\ pc' = [pc EXCEPT ![p] = "acq_begin"]
    /\ UNCHANGED <<sess, txs, fakeTxMutex, fakeTxConns, lconn, ltx, lok, lforced, lastRet, nAcq, nRel, cfgVars, connVars>>

\* the pool has to open a connection and the connect fails: db.BeginTx
\* returns the error and AcquireConn returns it (lines 700-702)
AcquireConn_BeginFails(p, db) ==
    /\ pc[p] \in {"idle", "acq_begin"}
    /\ Len(txs) < MaxTx
    /\ \E c \in Free(db) : pool[c] = "unopened"
    /\ pc' = [pc EXCEPT ![p] = "idle"]
    /\ Return(p, "acquire", ErrConnect)
    /\ UNCHANGED <<pool, sess, txs, fakeTxMutex, fakeTxConns, nAcq, nRel, cfgVars, connVars>>

\* db.BeginTx succeeds on connection c: a pgx connection sees the marker
\* and writes its session into conn; a foreign driver starts a transaction
\* of its own and leaves conn nil
AcquireConn_Begin(p, db) ==
    /\ pc[p] \in {"idle", "acq_begin"}
    /\ Len(txs) < MaxTx
    /\ \E c \in Free(db) :
        LET r == IF c \in PgxConns
                 THEN BeginTx(IF pool[c] = "unopened" THEN FALSE ELSE sess[c].closed,
                              TRUE, LevelDefault, FALSE, Nil)
                 ELSE [err |-> Nil, tx |-> "foreignTx", wrote |-> FALSE,
                       nativeBegin |-> 1, isoLevel |-> "", accessMode |-> ""]
        IN  /\ r.err = Nil
            /\ pool' = [pool EXCEPT ![c] = "inuse"]
            /\ sess' = IF c \in PgxConns /\ pool[c] = "unopened"
                       THEN [sess EXCEPT ![c] = FreshSession] ELSE sess
            /\ txs' = Append(txs, [conn |-> c, kind |-> r.tx, done |-> FALSE, rollbacks |-> 0])
            /\ lconn' = [lconn EXCEPT ![p] = IF r.wrote THEN c ELSE NoConn]
            /\ ltx' = [ltx EXCEPT ![p] = Len(txs) + 1]
    /\ pc' = [pc EXCEPT ![p] = "acq_check"]
    /\ UNCHANGED <<fakeTxMutex, fakeTxConns, lok, lforced, lastRet, nAcq, nRel, cfgVars, connVars>>

\* (mutant) the not-pgx path returns without rolling the transaction back
AcquireConn_NotPgx_NoRollback(p) ==
    /\ pc[p] = "acq_check"
    /\ lconn[p] = NoConn
    /\ pc' = [pc EXCEPT ![p] = "idle"]
    /\ Return(p, "acquire", ErrNotPgx)
    /\ UNCHANGED <<pool, txs, sess, fakeTxMutex, fakeTxConns, nAcq, nRel, cfgVars, connVars>>

\* lines 703-706
AcquireConn_NotPgx(p) ==
    /\ pc[p] = "acq_check"
    /\ lconn[p] = NoConn
    /\ txs' = TxsAfterRollback(ltx[p])
    /\ pool' = PoolAfterRollback(ltx[p])
    /\ pc' = [pc EXCEPT ![p] = "idle"]
    /\ Return(p, "acquire", ErrNotPgx)
    /\ UNCHANGED <<sess, fakeTxMutex, fakeTxConns, nAcq, nRel, cfgVars, connVars>>

\* line 708
AcquireConn_Lock(p) ==
    /\ pc[p] = "acq_check"
    /\ lconn[p] # NoConn
    /\ fakeTxMutex = NoProc
    /\ fakeTxMutex' = p
    /\ pc' = [pc EXCEPT ![p] = "acq_insert"]
    /\ UNCHANGED <<pool, sess, txs, fakeTxConns, lconn, ltx, lok, lforced, lastRet, nAcq, nRel, cfgVars, connVars>>

\* (mutant) the borrow is counted but the entry is not stored
AcquireConn_Insert_Skipped(p) ==
    /\ pc[p] = "acq_insert"
    /\ nAcq' = [nAcq EXCEPT ![lconn[p]] = @ + 1]
    /\ pc' = [pc EXCEPT ![p] = "acq_unlock"]
    /\ UNCHANGED <<pool, sess, txs, fakeTxMutex, fakeTxConns, lconn, ltx, lok, lforced, lastRet, nRel, cfgVars, connVars>>

\* line 709
AcquireConn_Insert(p) ==
    /\ pc[p] = "acq_insert"
    /\ fakeTxConns' = Insert(fakeTxConns, lconn[p], ltx[p])
    /\ nAcq' = [nAcq EXCEPT ![lconn[p]] = @ + 1]
    /\ pc' = [pc EXCEPT ![p] = "acq_unlock"]
    /\ UNCHANGED <<pool, sess, txs, fakeTxMutex, lconn, ltx, lok, lforced, lastRet, nRel, cfgVars, connVars>>

\* lines 710-712
AcquireConn_Unlock(p) ==
    /\ pc[p] = "acq_unlock"
    /\ fakeTxMutex' = NoProc
    /\ pc' = [pc EXCEPT ![p] = "idle"]
    /\ Return(p, "acquire", Nil)
    /\ UNCHANGED <<pool, sess, txs, fakeTxConns, nAcq, nRel, cfgVars, connVars>>

(***************************************************************************)
(* ReleaseConn(db, conn), lines 715-736.  The db argument is not read.     *)
(***************************************************************************)
\* pgx.Conn.Close: the session reports itself closed from then on, and a
\* closed connection is not busy
Closed(x) == [x EXCEPT !.closed = TRUE, !.busy = FALSE]

MustForceClose(s) == sess[s].busy \/ sess[s].txStatus # "I"

\* (mutant) only a busy session is closed, whatever its transaction status
ReleaseConn_Check_BusyOnly(p, s) ==
    /\ pc[p] = "idle"
    /\ pool[s] # "unopened"
    /\ sess' = IF sess[s].busy THEN [sess EXCEPT ![s] = Closed(sess[s])] ELSE sess
    /\ lconn' = [lconn EXCEPT ![p] = s]
    /\ lforced' = [lforced EXCEPT ![p] = (sess'[s] # sess[s])]
    /\ pc' = [pc EXCEPT ![p] = "rel_lock"]
    /\ UNCHANGED <<pool, txs, fakeTxMutex, fakeTxConns, ltx, lok, lastRet, nAcq, nRel, cfgVars, connVars>>

\* (mutant) the session is closed whatever it reports
ReleaseConn_Check_ClosesAlways(p, s) ==
    /\ pc[p] = "idle"
    /\ pool[s] # "unopened"
    /\ sess' = [sess EXCEPT ![s] = Closed(sess[s])]
    /\ lconn' = [lconn EXCEPT ![p] = s]
    /\ lforced' = [lforced EXCEPT ![p] = (sess'[s] # sess[s])]
    /\ pc' = [pc EXCEPT ![p] = "rel_lock"]
    /\ UNCHANGED <<pool, txs, fakeTxMutex, fakeTxConns, ltx, lok, lastRet, nAcq, nRel, cfgVars, connVars>>

\* lines 719-723: a busy or non-idle session is closed
ReleaseConn_Check(p, s) ==
    /\ pc[p] = "idle"
    /\ pool[s] # "unopened"
    /\ sess' = IF MustForceClose(s) THEN [sess EXCEPT ![s] = Closed(sess[s])] ELSE sess
    /\ lconn' = [lconn EXCEPT ![p] = s]
    /\ lforced' = [lforced EXCEPT ![p] = (sess'[s] # sess[s])]
    /\ pc' = [pc EXCEPT ![p] = "rel_lock"]
    /\ UNCHANGED <<pool, txs, fakeTxMutex, fakeTxConns, ltx, lok, lastRet, nAcq, nRel, cfgVars, connVars>>

\* line 725
ReleaseConn_Lock(p) ==
    /\ pc[p] = "rel_lock"
    /\ fakeTxMutex = NoProc
    /\ fakeTxMutex' = p
    /\ pc' = [pc EXCEPT ![p] = "rel_lookup"]
    /\ UNCHANGED <<pool, sess, txs, fakeTxConns, lconn, ltx, lok, lforced, lastRet, nAcq, nRel, cfgVars, connVars>>

\* (mutant) the entry is looked up but not deleted
ReleaseConn_Lookup_NoDelete(p) ==
    /\ pc[p] = "rel_lookup"
    /\ lok' = [lok EXCEPT ![p] = lconn[p] \in DOMAIN fakeTxConns]
    /\ ltx' = [ltx EXCEPT ![p] = IF lconn[p] \in DOMAIN fakeTxConns
                                 THEN fakeTxConns[lconn[p]] ELSE NoTx]
    /\ pc' = [pc EXCEPT ![p] = "rel_unlock"]
    /\ UNCHANGED <<pool, sess, txs, fakeTxMutex, fakeTxConns, lconn, lforced, lastRet, nAcq, nRel, cfgVars, connVars>>

\* lines 726-728: tx, ok = fakeTxConns[conn]; if ok { delete(fakeTxConns, conn)
ReleaseConn_Lookup(p) ==
    /\ pc[p] = "rel_lookup"
    /\ lok' = [lok EXCEPT ![p] = lconn[p] \in DOMAIN fakeTxConns]
    /\ ltx' = [ltx EXCEPT ![p] = IF lconn[p] \in DOMAIN fakeTxConns
                                 THEN fakeTxConns[lconn[p]] ELSE NoTx]
    /\ fakeTxConns' = IF lconn[p] \in DOMAIN fakeTxConns
                      THEN Delete(fakeTxConns, lconn[p]) ELSE fakeTxConns
    /\ pc' = [pc EXCEPT ![p] = "rel_unlock"]
    /\ UNCHANGED <<pool, sess, txs, fakeTxMutex, lconn, lforced, lastRet, nAcq, nRel, cfgVars, connVars>>

\* line 729: the entry was found
ReleaseConn_Unlock(p) ==
    /\ pc[p] = "rel_unlock"
    /\ lok[p]
    /\ fakeTxMutex' = NoProc
    /\ pc' = [pc EXCEPT ![p] = "rel_rollback"]
    /\ UNCHANGED <<pool, sess, txs, fakeTxConns, lconn, ltx, lok, lforced, lastRet, nAcq, nRel, cfgVars, connVars>>

\* (mutant) a release that finds no entry returns nil
ReleaseConn_NotAcquired_ReturnsNil(p) ==
    /\ pc[p] = "rel_unlock"
    /\ ~lok[p]
    /\ fakeTxMutex' = NoProc
    /\ nRel' = [nRel EXCEPT ![lconn[p]] = @ + 1]
    /\ pc' = [pc EXCEPT ![p] = "idle"]
    /\ Return(p, "release", Nil)
    /\ UNCHANGED <<pool, sess, txs, fakeTxConns, nAcq, cfgVars, connVars>>

\* (mutant) the not-acquired path returns with fakeTxMutex still locked
ReleaseConn_NotAcquired_KeepsLock(p) ==
    /\ pc[p] = "rel_unlock"
    /\ ~lok[p]
    /\ pc' = [pc EXCEPT ![p] = "idle"]
    /\ Return(p, "release", ErrNotAcquired)
    /\ UNCHANGED <<pool, sess, txs, fakeTxMutex, fakeTxConns, nAcq, nRel, cfgVars, connVars>>

\* lines 730-733: no entry
ReleaseConn_NotAcquired(p) ==
    /\ pc[p] = "rel_unlock"
    /\ ~lok[p]
    /\ fakeTxMutex' = NoProc
    /\ pc' = [pc EXCEPT ![p] = "idle"]
    /\ Return(p, "release", ErrNotAcquired)
    /\ UNCHANGED <<pool, sess, txs, fakeTxConns, nAcq, nRel, cfgVars, connVars>>

\* (mutant) the release returns nil without rolling the parked transaction back
ReleaseConn_Rollback_Skipped(p) ==
    /\ pc[p] = "rel_rollback"
    /\ nRel' = [nRel EXCEPT ![lconn[p]] = @ + 1]
    /\ pc' = [pc EXCEPT ![p] = "idle"]
    /\ Return(p, "release", Nil)
    /\ UNCHANGED <<pool, txs, sess, fakeTxMutex, fakeTxConns, nAcq, cfgVars, connVars>>

\* line 735: return tx.Rollback()
ReleaseConn_Rollback(p) ==
    /\ pc[p] = "rel_rollback"
    /\ txs' = TxsAfterRollback(ltx[p])
    /\ pool' = PoolAfterRollback(ltx[p])
    /\ nRel' = IF TxRollbackErr(ltx[p]) = Nil
               THEN [nRel EXCEPT ![lconn[p]] = @ + 1] ELSE nRel
    /\ pc' = [pc EXCEPT ![p] = "idle"]
    /\ Return(p, "release", TxRollbackErr(ltx[p]))
    /\ UNCHANGED <<sess, fakeTxMutex, fakeTxConns, nAcq, cfgVars, connVars>>

(***************************************************************************)
(* What happens to a native session outside the adapter: its borrower uses *)
(* it (it becomes busy, opens or fails a transaction, or goes back to      *)
(* idle), and the server or the network may close it at any time.          *)
(***************************************************************************)
SessionUse(s) ==
    /\ pool[s] = "inuse"
    /\ ~sess[s].closed
    /\ \E b \in BOOLEAN, t \in TxStatuses :
        /\ <<b, t>> # <<sess[s].busy, sess[s].txStatus>>
        /\ sess' = [sess EXCEPT ![s].busy = b, ![s].txStatus = t]
    /\ UNCHANGED <<pool, txs, fakeTxMutex, fakeTxConns, pc, lconn, ltx, lok, lforced, lastRet,
                   nAcq, nRel, cfgVars, connVars>>

SessionDrop(s) ==
    /\ pool[s] \in {"idle", "inuse"}
    /\ ~sess[s].closed
    /\ sess' = [sess EXCEPT ![s] = Closed(sess[s])]
    /\ UNCHANGED <<pool, txs, fakeTxMutex, fakeTxConns, pc, lconn, ltx, lok, lforced, lastRet,
                   nAcq, nRel, cfgVars, connVars>>

(***************************************************************************)
(* The Driver's named-configuration registry, lines 196-237.               *)
(***************************************************************************)
\* fmt.Sprintf("registeredConnConfig%d", n)
ConnStr(n) ==
    CASE n = 0 -> "registeredConnConfig0"
      [] n = 1 -> "registeredConnConfig1"
      [] n = 2 -> "registeredConnConfig2"
      [] n = 3 -> "registeredConnConfig3"
      [] n = 4 -> "registeredConnConfig4"
      [] n = 5 -> "registeredConnConfig5"
      [] OTHER -> "registeredConnConfig6"

Cfgs == {"cfgA", "cfgB"}        \* the *pgx.ConnConfig values callers register
NoCfg == "nil"                  \* the nil *pgx.ConnConfig
ValidDSN == "host=localhost"
ParsedCfg == "cfg parsed from host=localhost"
Names == {ConnStr(n) : n \in 0..(MaxRegs - 1)} \cup {ValidDSN}

\* pgx.ParseConfig: a registry key is no valid connection string
ParseConfig(name) ==
    IF name = ValidDSN THEN [err |-> Nil, cfg |-> ParsedCfg]
    ELSE [err |-> ErrParse, cfg |-> NoCfg]

\* session: pgx.ConnectConfig established a native session in this call;
\* hooks: how often AfterConnect ran on it; adapter: a *Conn was returned
NoLocals == [name |-> "", c |-> NoCfg, reg |-> NoCfg, cfg |-> NoCfg, parsed |-> FALSE,
             session |-> FALSE, hooks |-> 0]
NoResult == [op |-> "none", err |-> Nil, key |-> "", cfg |-> NoCfg, parsed |-> FALSE,
             session |-> FALSE, hooks |-> 0, hookErr |-> Nil, adapter |-> FALSE]

InitCfg ==
    /\ configs = <<>>
    /\ configMutex = NoProc
    /\ cpc = [p \in Procs |-> "idle"]
    /\ cloc = [p \in Procs |-> NoLocals]
    /\ clast = NoResult
    /\ nReg = 0

\* line 197
registerConnConfig_Lock(p, c) ==
    /\ cpc[p] = "idle"
    /\ nReg < MaxRegs
    /\ configMutex = NoProc
    /\ configMutex' = p
    /\ nReg' = nReg + 1
    /\ cloc' = [cloc EXCEPT ![p] = [NoLocals EXCEPT !.c = c]]
    /\ cpc' = [cpc EXCEPT ![p] = "reg_insert"]
    /\ UNCHANGED <<configs, clast, borrowVars, connVars>>

\* lines 198-199: connStr is numbered by len(d.configs)
registerConnConfig_Insert(p) ==
    /\ cpc[p] = "reg_insert"
    /\ configs' = Insert(configs, ConnStr(Cardinality(DOMAIN configs)), cloc[p].c)
    /\ cloc' = [cloc EXCEPT ![p].name = ConnStr(Cardinality(DOMAIN configs))]
    /\ cpc' = [cpc EXCEPT ![p] = "reg_unlock"]
    /\ UNCHANGED <<configMutex, clast, nReg, borrowVars, connVars>>

\* lines 200-201
registerConnConfig_Unlock(p) ==
    /\ cpc[p] = "reg_unlock"
    /\ configMutex' = NoProc
    /\ clast' = [NoResult EXCEPT !.op = "register", !.key = cloc[p].name]
    /\ cloc' = [cloc EXCEPT ![p] = NoLocals]
    /\ cpc' = [cpc EXCEPT ![p] = "idle"]
    /\ UNCHANGED <<configs, nReg, borrowVars, connVars>>

\* line 205
unregisterConnConfig_Lock(p, name) ==
    /\ cpc[p] = "idle"
    /\ configMutex = NoProc
    /\ configMutex' = p
    /\ cloc' = [cloc EXCEPT ![p] = [NoLocals EXCEPT !.name = name]]
    /\ cpc' = [cpc EXCEPT ![p] = "unreg_delete"]
    /\ UNCHANGED <<configs, clast, nReg, borrowVars, connVars>>

\* line 206
unregisterConnConfig_Delete(p) ==
    /\ cpc[p] = "unreg_delete"
    /\ configs' = IF cloc[p].name \in DOMAIN configs
                  THEN Delete(configs, cloc[p].name) ELSE configs
    /\ cpc' = [cpc EXCEPT ![p] = "unreg_unlock"]
    /\ UNCHANGED <<configMutex, cloc, clast, nReg, borrowVars, connVars>>

\* line 207
unregisterConnConfig_Unlock(p) ==
    /\ cpc[p] = "unreg_unlock"
    /\ configMutex' = NoProc
    /\ clast' = [NoResult EXCEPT !.op = "unregister", !.key = cloc[p].name]
    /\ cloc' = [cloc EXCEPT ![p] = NoLocals]
    /\ cpc' = [cpc EXCEPT ![p] = "idle"]
    /\ UNCHANGED <<configs, nReg, borrowVars, connVars>>

\* driverConnector.Connect, line 218
Connect_Lock(p, name) ==
    /\ cpc[p] = "idle"
    /\ configMutex = NoProc
    /\ configMutex' = p
    /\ cloc' = [cloc EXCEPT ![p] = [NoLocals EXCEPT !.name = name]]
    /\ cpc' = [cpc EXCEPT ![p] = "con_lookup"]
    /\ UNCHANGED <<configs, clast, nReg, borrowVars, connVars>>

\* what the table holds under name (reg records it for the call's lifetime)
Registered(name) == IF name \in DOMAIN configs THEN configs[name] ELSE NoCfg

\* (mutant) the table is not consulted
Connect_Lookup_Skipped(p) ==
    /\ cpc[p] = "con_lookup"
    /\ cloc' = [cloc EXCEPT ![p].reg = Registered(cloc[p].name), ![p].cfg = NoCfg]
    /\ cpc' = [cpc EXCEPT ![p] = "con_unlock"]
    /\ UNCHANGED <<configs, configMutex, clast, nReg, borrowVars, connVars>>

\* line 219: connConfig = dc.driver.configs[dc.name]
Connect_Lookup(p) ==
    /\ cpc[p] = "con_lookup"
    /\ cloc' = [cloc EXCEPT ![p].reg = Registered(cloc[p].name),
                            ![p].cfg = Registered(cloc[p].name)]
    /\ cpc' = [cpc EXCEPT ![p] = "con_unlock"]
    /\ UNCHANGED <<configs, configMutex, clast, nReg, borrowVars, connVars>>

\* (mutant) the mutex is kept over the parse and the native connect
Connect_Unlock_KeepsLock(p) ==
    /\ cpc[p] = "con_unlock"
    /\ cpc' = [cpc EXCEPT ![p] = IF cloc[p].cfg = NoCfg THEN "con_parse" ELSE "con_native"]
    /\ UNCHANGED <<configs, configMutex, cloc, clast, nReg, borrowVars, connVars>>

\* lines 220-222
Connect_Unlock(p) ==
    /\ cpc[p] = "con_unlock"
    /\ configMutex' = NoProc
    /\ cpc' = [cpc EXCEPT ![p] = IF cloc[p].cfg = NoCfg THEN "con_parse" ELSE "con_native"]
    /\ UNCHANGED <<configs, cloc, clast, nReg, borrowVars, connVars>>

\* lines 223-227: the name does not parse
Connect_ParseFails(p) ==
    /\ cpc[p] = "con_parse"
    /\ ParseConfig(cloc[p].name).err # Nil
    /\ clast' = [NoResult EXCEPT !.op = "connect", !.err = ParseConfig(cloc[p].name).err,
                                 !.key = cloc[p].name, !.parsed = TRUE]
    /\ cloc' = [cloc EXCEPT ![p] = NoLocals]
    /\ cpc' = [cpc EXCEPT ![p] = "idle"]
    /\ UNCHANGED <<configs, configMutex, nReg, borrowVars, connVars>>

\* lines 223-224: the name parses
Connect_Parse(p) ==
    /\ cpc[p] = "con_parse"
    /\ ParseConfig(cloc[p].name).err = Nil
    /\ cloc' = [cloc EXCEPT ![p].cfg = ParseConfig(cloc[p].name).cfg, ![p].parsed = TRUE]
    /\ cpc' = [cpc EXCEPT ![p] = "con_native"]
    /\ UNCHANGED <<configs, configMutex, clast, nReg, borrowVars, connVars>>

\* lines 230-236: pgx.ConnectConfig(ctx, connConfig) fails or succeeds; the
\* Conn returned carries the configuration it was connected with
Connect_Native(p) ==
    /\ cpc[p] = "con_native"
    /\ \E e \in {Nil, ErrConnect} :
        clast' = [NoResult EXCEPT !.op = "connect", !.err = e, !.key = cloc[p].name,
                                  !.cfg = cloc[p].cfg, !.parsed = cloc[p].parsed,
                                  !.session = (e = Nil), !.adapter = (e = Nil)]
    /\ cloc' = [cloc EXCEPT ![p] = NoLocals]
    /\ cpc' = [cpc EXCEPT ![p] = "idle"]
    /\ UNCHANGED <<configs, configMutex, nReg, borrowVars, connVars>>

(***************************************************************************)
(* connector.Connect, lines 148-163: the connector sql.OpenDB is given by  *)
(* OpenDB.  It carries its own ConnConfig and the AfterConnect hook (a     *)
(* no-op unless OptionAfterConnect replaced it).                           *)
(***************************************************************************)
OpenDBCfg == "cfg of OpenDB"
HookErrs == {ErrHook, ErrTimeout}     \* what a failing AfterConnect may return

\* lines 154-156: pgx.ConnectConfig fails
connector_Connect_NativeFails(p) ==
    /\ cpc[p] = "idle"
    /\ clast' = [NoResult EXCEPT !.op = "connector.Connect", !.err = ErrConnect,
                                 !.cfg = OpenDBCfg]
    /\ UNCHANGED <<configs, configMutex, cpc, cloc, nReg, borrowVars, connVars>>

\* line 154: pgx.ConnectConfig establishes a session
connector_Connect_Native(p) ==
    /\ cpc[p] = "idle"
    /\ cloc' = [cloc EXCEPT ![p] = [NoLocals EXCEPT !.cfg = OpenDBCfg, !.session = TRUE]]
    /\ cpc' = [cpc EXCEPT ![p] = "oc_hook"]
    /\ UNCHANGED <<configs, configMutex, clast, nReg, borrowVars, connVars>>

\* (mutant) the error of AfterConnect is dropped and the Conn is returned
connector_Connect_Hook_ErrorDropped(p, hookErr) ==
    /\ cpc[p] = "oc_hook"
    /\ clast' = [NoResult EXCEPT !.op = "connector.Connect", !.cfg = cloc[p].cfg,
                                 !.session = cloc[p].session,
                                 !.hooks = cloc[p].hooks + 1, !.hookErr = hookErr,
                                 !.err = Nil, !.adapter = TRUE]
    /\ cloc' = [cloc EXCEPT ![p] = NoLocals]
    /\ cpc' = [cpc EXCEPT ![p] = "idle"]
    /\ UNCHANGED <<configs, configMutex, nReg, borrowVars, connVars>>

\* lines 158-162: c.AfterConnect(ctx, conn) runs and answers hookErr; the
\* Conn is built and returned only if that is nil
connector_Connect_Hook(p, hookErr) ==
    /\ cpc[p] = "oc_hook"
    /\ clast' = [NoResult EXCEPT !.op = "connector.Connect", !.cfg = cloc[p].cfg,
                                 !.session = cloc[p].session,
                                 !.hooks = cloc[p].hooks + 1, !.hookErr = hookErr,
                                 !.err = hookErr, !.adapter = (hookErr = Nil)]
    /\ cloc' = [cloc EXCEPT ![p] = NoLocals]
    /\ cpc' = [cpc EXCEPT ![p] = "idle"]
    /\ UNCHANGED <<configs, configMutex, nReg, borrowVars, connVars>>

NextCfg ==
    \/ \E p \in Procs, c \in Cfgs : registerConnConfig_Lock(p, c)
    \/ \E p \in Procs : registerConnConfig_Insert(p)
    \/ \E p \in Procs : registerConnConfig_Unlock(p)
    \/ \E p \in Procs, name \in Names : unregisterConnConfig_Lock(p, name)
    \/ \E p \in Procs : unregisterConnConfig_Delete(p)
    \/ \E p \in Procs : unregisterConnConfig_Unlock(p)
    \/ \E p \in Procs, name \in Names : Connect_Lock(p, name)
    \/ \E p \in Procs : Connect_Lookup(p)
    \/ \E p \in Procs : Connect_Unlock(p)
    \/ \E p \in Procs : Connect_ParseFails(p)
    \/ \E p \in Procs : Connect_Parse(p)
    \/ \E p \in Procs : Connect_Native(p)
    \/ \E p \in Procs : connector_Connect_NativeFails(p)
    \/ \E p \in Procs : connector_Connect_Native(p)
    \/ \E p \in Procs, e \in {Nil} \cup HookErrs : connector_Connect_Hook(p, e)

(***************************************************************************)
(* One Conn and its native session, lines 253-375, and the Rows cursor of  *)
(* its last query, lines 408-655.  The pool makes one call at a time on a  *)
(* connection, so every handler is one step.  call records the handler     *)
(* that ran last: whether the session reported itself closed on entry, the *)
(* native calls it made in order, what the native call answered and what   *)
(* the handler returned.                                                   *)
(***************************************************************************)
NativeErrs == {ErrRetryable, ErrOther, ErrTimeout}

\* pgconn.SafeToRetry
SafeToRetry(e) == e = ErrRetryable

NoCall == [op |-> "none", err |-> Nil, wasClosed |-> FALSE, native |-> <<>>,
           nativeErr |-> Nil, iso |-> 0, marker |-> FALSE, tx |-> "none", wrote |-> FALSE]

\* A Go slice: nil until make() is called; make(n) is not nil even for n = 0.
NilSlice == [isNil |-> TRUE, elems |-> <<>>]
\* (mutant) make() of length 0 gives the nil slice
Make_NilWhenEmpty(elems) == [isNil |-> elems = <<>>, elems |-> elems]

Make(elems) == [isNil |-> FALSE, elems |-> elems]

\* (mutant) the decoder switch without its case for int4
MappedOIDs_WithoutInt4 ==
    {"BoolOID", "ByteaOID", "CIDOID", "DateOID", "Float4OID", "Float8OID",
     "Int2OID", "Int8OID", "JSONOID", "JSONBOID", "OIDOID",
     "TimestampOID", "TimestamptzOID", "XIDOID"}

\* the wire types the decoder switch of Rows.Next names (lines 518-607)
MappedOIDs ==
    {"BoolOID", "ByteaOID", "CIDOID", "DateOID", "Float4OID", "Float8OID",
     "Int2OID", "Int4OID", "Int8OID", "JSONOID", "JSONBOID", "OIDOID",
     "TimestampOID", "TimestamptzOID", "XIDOID"}

\* lines 95-109: the wire types whose results the adapter asks for in binary
\* (each is given format code 1); QueryContext passes the table with every
\* query (line 349)
databaseSQLResultFormats ==
    {"BoolOID", "ByteaOID", "CIDOID", "DateOID", "Float4OID", "Float8OID",
     "Int2OID", "Int4OID", "Int8OID", "OIDOID", "TimestampOID",
     "TimestamptzOID", "XIDOID"}

\* the wire types a column of the model can have: one the adapter asks for in
\* binary, one it decodes but asks for in text, and one the switch does not name
ColOIDs == {"Int4OID", "JSONOID", "TextOID"}

BinaryFormatCode == "binary"
TextFormatCode == "text"
Formats == {TextFormatCode, BinaryFormatCode}

\* the format the table asks for: a wire type that is not a key of the map
\* reads as format code 0, which is text
RequestedFormat(oid) ==
    IF oid \in databaseSQLResultFormats THEN BinaryFormatCode ELSE TextFormatCode

\* the nil pgtype.BinaryDecoder
NilDecoder == "nil"

\* the value v the switch creates for a column of wire type oid (lines 517-613)
ValueOf(oid) ==
    CASE oid = "BoolOID" -> "pgtype.Bool"
      [] oid = "ByteaOID" -> "pgtype.Bytea"
      [] oid = "CIDOID" -> "pgtype.CID"
      [] oid = "DateOID" -> "pgtype.Date"
      [] oid = "Float4OID" -> "pgtype.Float4"
      [] oid = "Float8OID" -> "pgtype.Float8"
      [] oid = "Int2OID" -> "pgtype.Int2"
      [] oid = "Int4OID" -> "pgtype.Int4"
      [] oid = "Int8OID" -> "pgtype.Int8"
      [] oid = "JSONOID" -> "pgtype.JSON"
      [] oid = "JSONBOID" -> "pgtype.JSONB"
      [] oid = "OIDOID" -> "pgtype.OIDValue"
      [] oid = "TimestampOID" -> "pgtype.Timestamp"
      [] oid = "TimestamptzOID" -> "pgtype.Timestamptz"
      [] oid = "XIDOID" -> "pgtype.XID"
      [] OTHER -> "pgtype.GenericText"

\* (mutant) the default case installs the generic text value as binary decoder too
BinaryDecoderOf_Always(oid) == ValueOf(oid)

\* r.binaryDecoders[i]: every named case sets it, the default case (lines
\* 608-613) leaves the element make() created, which is nil
BinaryDecoderOf(oid) == IF oid \in MappedOIDs THEN ValueOf(oid) ELSE NilDecoder

NoCursor == [active |-> FALSE, rows |-> <<>>, nerr |-> Nil, pos |-> 0, nnext |-> 0,
             done |-> FALSE, skipNext |-> FALSE, skipNextMore |-> FALSE,
             delivered |-> <<>>, nextCalls |-> 0, ended |-> 0, scanErrs |-> 0,
             failed |-> FALSE,
             cols |-> <<>>, values |-> NilSlice, driverValuers |-> NilSlice,
             textDecoders |-> NilSlice, binaryDecoders |-> NilSlice,
             allocs |-> 0, panics |-> 0]

InitConn ==
    /\ conn = [closed |-> FALSE, psCount |-> 0]
    /\ call = NoCall
    /\ cur = NoCursor

\* pgx.Rows.Next: advance to the next row if there is one; otherwise the
\* iterator closes itself.  pgx.Rows.Err: the iterator's error once it closed.
ItMore(it) == ~it.done /\ it.pos < Len(it.rows)
ItNext(it) ==
    IF ItMore(it) THEN [it EXCEPT !.pos = @ + 1, !.nnext = @ + 1]
    ELSE [it EXCEPT !.done = TRUE, !.nnext = @ + 1]
ItErr(it) == IF it.done THEN it.nerr ELSE Nil

\* the results a query can have: up to MaxRows rows, each of which decodes or
\* does not, and the error (if any) the iterator ends with
RowSeqs ==
    UNION {[1..n -> BOOLEAN] : n \in 0..MaxRows}

\* the field descriptions a result can have: up to MaxCols columns, each with
\* its wire type and the format the server used for it
Columns == [oid : ColOIDs, format : Formats]
ColumnLists ==
    UNION {[1..n -> Columns] : n \in 0..MaxCols}

\* the results the adapter as a whole is run with (the cursor is run over
\* every result in SpecRows): one int4 column sent in binary, no row or one
ConnColumnLists ==
    {<<[oid |-> "Int4OID", format |-> BinaryFormatCode]>>}
ConnRowSeqs == {<<>>, <<FALSE>>}

ResultOf(cols, bad, nerr) ==
    [NoCursor EXCEPT !.rows = [k \in 1..Len(bad) |-> [id |-> k, bad |-> bad[k]]],
                     !.nerr = nerr, !.cols = cols]

\* lines 510-615: the per-column arrays are made when r.values is nil
ColumnPlan(r) ==
    IF r.values.isNil
    THEN [r EXCEPT
            !.values = Make([i \in 1..Len(r.cols) |-> ValueOf(r.cols[i].oid)]),
            !.driverValuers = Make([i \in 1..Len(r.cols) |-> ValueOf(r.cols[i].oid)]),
            !.textDecoders = Make([i \in 1..Len(r.cols) |-> ValueOf(r.cols[i].oid)]),
            !.binaryDecoders = Make([i \in 1..Len(r.cols) |-> BinaryDecoderOf(r.cols[i].oid)]),
            !.allocs = @ + 1]
    ELSE r

\* lines 633-652: the columns of the current row are decoded in order, from
\* column i on.  A method call on the nil binary decoder panics; a row whose
\* raw values are malformed fails in the first decoder that reads them.
RECURSIVE DecodeFrom(_, _, _)
DecodeFrom(r, row, i) ==
    IF i > Len(r.cols) THEN "ok"
    ELSE IF r.cols[i].format = BinaryFormatCode
    THEN IF r.binaryDecoders.elems[i] = NilDecoder THEN "panic"
         ELSE IF row.bad THEN "scan failed"
         ELSE DecodeFrom(r, row, i + 1)
    ELSE IF row.bad THEN "scan failed"
         ELSE DecodeFrom(r, row, i + 1)

\* lines 264-278
PrepareContext(nativeErr) ==
    /\ conn.psCount < MaxPrepares
    /\ IF conn.closed
       THEN /\ call' = [NoCall EXCEPT !.op = "prepare", !.wasClosed = TRUE, !.err = ErrBadConn]
            /\ conn' = conn
       ELSE /\ call' = [NoCall EXCEPT !.op = "prepare", !.native = <<"Prepare">>,
                                      !.nativeErr = nativeErr, !.err = nativeErr]
            /\ conn' = [conn EXCEPT !.psCount = @ + 1]
    /\ UNCHANGED <<cur, borrowVars, cfgVars>>

\* lines 280-284: no closed check; the native Close always runs
Close(nativeErr) ==
    /\ call' = [NoCall EXCEPT !.op = "close", !.wasClosed = conn.closed,
                              !.native = <<"Close">>, !.nativeErr = nativeErr,
                              !.err = nativeErr]
    /\ conn' = [conn EXCEPT !.closed = TRUE]
    /\ UNCHANGED <<cur, borrowVars, cfgVars>>

\* lines 290-325; the marker only travels with the options of
\* db.BeginTx(ctx, nil) in AcquireConn
ConnBeginTx(iso, readOnly, marker, nativeErr) ==
    /\ marker => (iso = LevelDefault /\ ~readOnly)
    /\ LET r == BeginTx(conn.closed, marker, iso, readOnly, nativeErr)
       IN  call' = [NoCall EXCEPT !.op = "begin", !.wasClosed = conn.closed,
                                  !.native = IF r.nativeBegin = 1 THEN <<"BeginTx">> ELSE <<>>,
                                  !.nativeErr = IF r.nativeBegin = 1 THEN nativeErr ELSE Nil,
                                  !.err = r.err, !.iso = iso, !.marker = marker,
                                  !.tx = r.tx, !.wrote = r.wrote]
    /\ UNCHANGED <<conn, cur, borrowVars, cfgVars>>

\* (mutant) Rollback goes to the native session whatever the transaction is
TxRollback_AlwaysNative(nativeErr) ==
    /\ call.op = "begin"
    /\ call.tx # "none"
    /\ call' = [NoCall EXCEPT !.op = "rollback", !.tx = call.tx, !.marker = call.marker,
                              !.wrote = call.wrote, !.iso = call.iso,
                              !.native = <<"Rollback">>,
                              !.nativeErr = nativeErr, !.err = nativeErr]
    /\ UNCHANGED <<conn, cur, borrowVars, cfgVars>>

\* lines 684-694: Commit of the driver.Tx the last BeginTx returned.
\* wrapTx passes it to the native transaction; fakeTx returns nil.
TxCommit(nativeErr) ==
    /\ call.op = "begin"
    /\ call.tx # "none"
    /\ call' = [NoCall EXCEPT !.op = "commit", !.tx = call.tx, !.marker = call.marker,
                              !.wrote = call.wrote, !.iso = call.iso,
                              !.native = IF call.tx = "fakeTx"
                                         THEN [i \in 1..FakeTxCommit.native |-> "Commit"]
                                         ELSE <<"Commit">>,
                              !.nativeErr = IF call.tx = "fakeTx" THEN Nil ELSE nativeErr,
                              !.err = IF call.tx = "fakeTx" THEN FakeTxCommit.err
                                      ELSE nativeErr]
    /\ UNCHANGED <<conn, cur, borrowVars, cfgVars>>

\* lines 688-694: Rollback of the driver.Tx the last BeginTx returned
TxRollback(nativeErr) ==
    /\ call.op = "begin"
    /\ call.tx # "none"
    /\ call' = [NoCall EXCEPT !.op = "rollback", !.tx = call.tx, !.marker = call.marker,
                              !.wrote = call.wrote, !.iso = call.iso,
                              !.native = IF call.tx = "fakeTx"
                                         THEN [i \in 1..FakeTxRollback.native |-> "Rollback"]
                                         ELSE <<"Rollback">>,
                              !.nativeErr = IF call.tx = "fakeTx" THEN Nil ELSE nativeErr,
                              !.err = IF call.tx = "fakeTx" THEN FakeTxRollback.err
                                      ELSE nativeErr]
    /\ UNCHANGED <<conn, cur, borrowVars, cfgVars>>

\* (mutant) a failed Exec that is safe to retry is sent again by the adapter
ExecContext_Retries(nativeErr) ==
    /\ IF conn.closed
       THEN call' = [NoCall EXCEPT !.op = "exec", !.wasClosed = TRUE, !.err = ErrBadConn]
       ELSE call' = [NoCall EXCEPT !.op = "exec",
                        !.native = IF SafeToRetry(nativeErr) THEN <<"Exec", "Exec">> ELSE <<"Exec">>,
                        !.nativeErr = nativeErr,
                        !.err = IF nativeErr # Nil /\ SafeToRetry(nativeErr)
                                THEN ErrBadConn ELSE nativeErr]
    /\ UNCHANGED <<conn, cur, borrowVars, cfgVars>>

\* lines 327-342
ExecContext(nativeErr) ==
    /\ IF conn.closed
       THEN call' = [NoCall EXCEPT !.op = "exec", !.wasClosed = TRUE, !.err = ErrBadConn]
       ELSE call' = [NoCall EXCEPT !.op = "exec", !.native = <<"Exec">>,
                        !.nativeErr = nativeErr,
                        !.err = IF nativeErr # Nil /\ SafeToRetry(nativeErr)
                                THEN ErrBadConn ELSE nativeErr]
    /\ UNCHANGED <<conn, cur, borrowVars, cfgVars>>

\* (mutant) the cursor does not remember that the first row was prefetched
QueryContext_NoSkip(cols, bad, nerr, nativeErr) ==
    /\ ~conn.closed
    /\ nativeErr = Nil
    /\ LET it == ItNext(ResultOf(cols, bad, nerr))
       IN  /\ ItErr(it) = Nil
           /\ call' = [NoCall EXCEPT !.op = "query", !.native = <<"Query", "Next">>]
           /\ cur' = [it EXCEPT !.active = TRUE, !.skipNext = FALSE,
                                !.skipNextMore = ItMore(ResultOf(cols, bad, nerr))]
    /\ UNCHANGED <<conn, borrowVars, cfgVars>>

\* lines 344-367
QueryContext(cols, bad, nerr, nativeErr) ==
    /\ IF conn.closed
       THEN /\ call' = [NoCall EXCEPT !.op = "query", !.wasClosed = TRUE, !.err = ErrBadConn]
            /\ cur' = cur
       ELSE IF nativeErr # Nil
       THEN /\ call' = [NoCall EXCEPT !.op = "query", !.native = <<"Query">>,
                           !.nativeErr = nativeErr,
                           !.err = IF SafeToRetry(nativeErr) THEN ErrBadConn ELSE nativeErr]
            /\ cur' = cur
       ELSE LET it == ItNext(ResultOf(cols, bad, nerr))
            IN  IF ItErr(it) # Nil
                THEN /\ call' = [NoCall EXCEPT !.op = "query",
                                    !.native = <<"Query", "Next", "RowsClose">>,
                                    !.err = ItErr(it)]
                     /\ cur' = cur
                ELSE /\ call' = [NoCall EXCEPT !.op = "query", !.native = <<"Query", "Next">>]
                     /\ cur' = [it EXCEPT !.active = TRUE, !.skipNext = TRUE,
                                          !.skipNextMore = ItMore(ResultOf(cols, bad, nerr))]
    /\ UNCHANGED <<conn, borrowVars, cfgVars>>

\* (mutant) Ping without the closed check
Ping_NoClosedCheck(nativeErr) ==
    /\ call' = [NoCall EXCEPT !.op = "ping", !.wasClosed = conn.closed,
                              !.native = <<"Ping">>, !.nativeErr = nativeErr,
                              !.err = nativeErr]
    /\ UNCHANGED <<conn, cur, borrowVars, cfgVars>>

\* lines 369-375
Ping(nativeErr) ==
    /\ IF conn.closed
       THEN call' = [NoCall EXCEPT !.op = "ping", !.wasClosed = TRUE, !.err = ErrBadConn]
       ELSE call' = [NoCall EXCEPT !.op = "ping", !.native = <<"Ping">>,
                                   !.nativeErr = nativeErr, !.err = nativeErr]
    /\ UNCHANGED <<conn, cur, borrowVars, cfgVars>>

\* (mutant) an exhausted iterator is always reported as end-of-data
RowsNext_AlwaysEOF ==
    /\ cur.active
    /\ ~cur.failed
    /\ cur.ended <= MaxExtraNext
    /\ LET plan == ColumnPlan(cur)
           it == IF plan.skipNext THEN [plan EXCEPT !.skipNext = FALSE] ELSE ItNext(plan)
           more == IF plan.skipNext THEN plan.skipNextMore ELSE ItMore(plan)
           nat == IF plan.skipNext THEN <<>> ELSE <<"Next">>
           counted == [it EXCEPT !.nextCalls = @ + 1]
       IN  IF ~more
           THEN /\ call' = [NoCall EXCEPT !.op = "next", !.native = nat, !.err = EOF]
                /\ cur' = [counted EXCEPT !.ended = @ + 1, !.failed = ItErr(it) # Nil]
           ELSE IF DecodeFrom(it, it.rows[it.pos], 1) = "panic"
           THEN /\ call' = [NoCall EXCEPT !.op = "next", !.native = nat, !.err = ErrPanic]
                /\ cur' = [counted EXCEPT !.failed = TRUE, !.panics = @ + 1]
           ELSE IF DecodeFrom(it, it.rows[it.pos], 1) = "scan failed"
           THEN /\ call' = [NoCall EXCEPT !.op = "next", !.native = nat, !.err = ErrScan]
                /\ cur' = [counted EXCEPT !.failed = TRUE, !.scanErrs = @ + 1]
           ELSE /\ call' = [NoCall EXCEPT !.op = "next", !.native = nat]
                /\ cur' = [counted EXCEPT !.delivered = Append(@, it.rows[it.pos].id)]
    /\ UNCHANGED <<conn, borrowVars, cfgVars>>

\* Rows.Next, lines 506-655.  database/sql closes a cursor whose Next failed
\* and does not call it again.  A Next that panics returns nothing: call.err
\* then holds the panic.
RowsNext ==
    /\ cur.active
    /\ ~cur.failed
    /\ cur.ended <= MaxExtraNext
    /\ LET plan == ColumnPlan(cur)
           it == IF plan.skipNext THEN [plan EXCEPT !.skipNext = FALSE] ELSE ItNext(plan)
           more == IF plan.skipNext THEN plan.skipNextMore ELSE ItMore(plan)
           nat == IF plan.skipNext THEN <<>> ELSE <<"Next">>
           counted == [it EXCEPT !.nextCalls = @ + 1]
       IN  IF ~more
           THEN /\ call' = [NoCall EXCEPT !.op = "next", !.native = nat,
                               !.err = IF ItErr(it) = Nil THEN EOF ELSE ItErr(it)]
                /\ cur' = [counted EXCEPT !.ended = @ + 1, !.failed = ItErr(it) # Nil]
           ELSE IF DecodeFrom(it, it.rows[it.pos], 1) = "panic"
           THEN /\ call' = [NoCall EXCEPT !.op = "next", !.native = nat, !.err = ErrPanic]
                /\ cur' = [counted EXCEPT !.failed = TRUE, !.panics = @ + 1]
           ELSE IF DecodeFrom(it, it.rows[it.pos], 1) = "scan failed"
           THEN /\ call' = [NoCall EXCEPT !.op = "next", !.native = nat, !.err = ErrScan]
                /\ cur' = [counted EXCEPT !.failed = TRUE, !.scanErrs = @ + 1]
           ELSE /\ call' = [NoCall EXCEPT !.op = "next", !.native = nat]
                /\ cur' = [counted EXCEPT !.delivered = Append(@, it.rows[it.pos].id)]
    /\ UNCHANGED <<conn, borrowVars, cfgVars>>

\* Rows.Close, lines 501-504
RowsClose ==
    /\ cur.active
    /\ call' = [NoCall EXCEPT !.op = "rows close", !.native = <<"RowsClose">>]
    /\ cur' = [cur EXCEPT !.active = FALSE, !.done = TRUE]
    /\ UNCHANGED <<conn, borrowVars, cfgVars>>

\* the server or the network ends the session
SessionLost ==
    /\ ~conn.closed
    /\ conn' = [conn EXCEPT !.closed = TRUE]
    /\ UNCHANGED <<call, cur, borrowVars, cfgVars>>

NextConn ==
    \/ \E e \in {Nil, ErrOther} : PrepareContext(e)
    \/ \E e \in {Nil, ErrOther} : Close(e)
    \/ \E iso \in IsoLevels, ro \in BOOLEAN, m \in BOOLEAN, e \in {Nil, ErrOther} :
          ConnBeginTx(iso, ro, m, e)
    \/ \E e \in {Nil, ErrOther} : TxCommit(e)
    \/ \E e \in {Nil, ErrOther} : TxRollback(e)
    \/ \E e \in {Nil} \cup NativeErrs : ExecContext(e)
    \/ \E e \in NativeErrs : QueryContext(<<>>, <<>>, Nil, e)
    \/ \E cols \in ConnColumnLists, bad \in ConnRowSeqs, nerr \in {Nil, ErrOther} :
          QueryContext(cols, bad, nerr, Nil)
    \/ \E e \in {Nil, ErrOther} : Ping(e)
    \/ RowsNext
    \/ RowsClose
    \/ SessionLost

\* the Rows cursor on its own: one query per behaviour, of every result
\* shape, and only the calls that create, advance and close its cursor
FirstQuery(cols, bad, nerr) ==
    /\ cur = NoCursor
    /\ QueryContext(cols, bad, nerr, Nil)

NextRows ==
    \/ \E cols \in ColumnLists, bad \in RowSeqs, nerr \in {Nil, ErrOther} :
          FirstQuery(cols, bad, nerr)
    \/ RowsNext
    \/ RowsClose
    \/ SessionLost

Init == InitBorrow /\ InitCfg /\ InitConn

Next ==
    \/ \E p \in Procs, db \in DBs : AcquireConn_BadConn(p, db)
    \/ \E p \in Procs, db \in DBs : AcquireConn_BeginFails(p, db)
    \/ \E p \in Procs, db \in DBs : AcquireConn_Begin(p, db)
    \/ \E p \in Procs : AcquireConn_NotPgx(p)
    \/ \E p \in Procs : AcquireConn_Lock(p)
    \/ \E p \in Procs : AcquireConn_Insert(p)
    \/ \E p \in Procs : AcquireConn_Unlock(p)
    \/ \E p \in Procs, s \in PgxConns : ReleaseConn_Check(p, s)
    \/ \E p \in Procs : ReleaseConn_Lock(p)
    \/ \E p \in Procs : ReleaseConn_Lookup(p)
    \/ \E p \in Procs : ReleaseConn_Unlock(p)
    \/ \E p \in Procs : ReleaseConn_NotAcquired(p)
    \/ \E p \in Procs : ReleaseConn_Rollback(p)
    \/ \E s \in PgxConns : SessionUse(s)
    \/ \E s \in PgxConns : SessionDrop(s)

Spec == Init /\ [][Next]_vars

\* The borrow protocol under fair scheduling.  A caller that is past
\* db.BeginTx, or inside ReleaseConn, keeps running (the code between the
\* calls, fakeTx.Rollback and the bounded Close do not block), and a caller
\* that waits in Lock() gets the mutex if it is free again and again
\* (sync.Mutex hands over to a starving waiter).  Nothing is assumed of
\* db.BeginTx, which may wait for the pool, nor of the borrowers.
Running(p) ==
    \/ AcquireConn_NotPgx(p)
    \/ AcquireConn_Insert(p)
    \/ AcquireConn_Unlock(p)
    \/ ReleaseConn_Lookup(p)
    \/ ReleaseConn_Unlock(p)
    \/ ReleaseConn_NotAcquired(p)
    \/ ReleaseConn_Rollback(p)

Fairness ==
    \A p \in Procs :
        /\ WF_vars(Running(p))
        /\ SF_vars(AcquireConn_Lock(p))
        /\ SF_vars(ReleaseConn_Lock(p))

SpecFair == Init /\ [][Next]_vars /\ Fairness

SpecCfg == Init /\ [][NextCfg]_vars

SpecConn == Init /\ [][NextConn]_vars

SpecRows == Init /\ [][NextRows]_vars

\* The two registries side by side.  They share no state and no function of
\* the adapter touches both, so each behaviour runs one of them: the borrow
\* protocol moves only while the configuration registry is as Init left it,
\* and the other way round.
\* no call on the borrow protocol (the configuration registry) has been made
BorrowUntouched ==
    lastRet.op = "none" /\ txs = <<>> /\ \A p \in Procs : pc[p] = "idle"
CfgUntouched ==
    clast.op = "none" /\ nReg = 0 /\ \A p \in Procs : cpc[p] = "idle"

NextLocks ==
    \/ CfgUntouched /\ \E p \in Procs, db \in DBs : AcquireConn_BadConn(p, db)
    \/ CfgUntouched /\ \E p \in Procs, db \in DBs : AcquireConn_BeginFails(p, db)
    \/ CfgUntouched /\ \E p \in Procs, db \in DBs : AcquireConn_Begin(p, db)
    \/ CfgUntouched /\ \E p \in Procs : AcquireConn_NotPgx(p)
    \/ CfgUntouched /\ \E p \in Procs : AcquireConn_Lock(p)
    \/ CfgUntouched /\ \E p \in Procs : AcquireConn_Insert(p)
    \/ CfgUntouched /\ \E p \in Procs : AcquireConn_Unlock(p)
    \/ CfgUntouched /\ \E p \in Procs, s \in PgxConns : ReleaseConn_Check(p, s)
    \/ CfgUntouched /\ \E p \in Procs : ReleaseConn_Lock(p)
    \/ CfgUntouched /\ \E p \in Procs : ReleaseConn_Lookup(p)
    \/ CfgUntouched /\ \E p \in Procs : ReleaseConn_Unlock(p)
    \/ CfgUntouched /\ \E p \in Procs : ReleaseConn_NotAcquired(p)
    \/ CfgUntouched /\ \E p \in Procs : ReleaseConn_Rollback(p)
    \/ CfgUntouched /\ \E s \in PgxConns : SessionUse(s)
    \/ CfgUntouched /\ \E s \in PgxConns : SessionDrop(s)
    \/ BorrowUntouched /\ \E p \in Procs, c \in Cfgs : registerConnConfig_Lock(p, c)
    \/ BorrowUntouched /\ \E p \in Procs : registerConnConfig_Insert(p)
    \/ BorrowUntouched /\ \E p \in Procs : registerConnConfig_Unlock(p)
    \/ BorrowUntouched /\ \E p \in Procs, name \in Names : unregisterConnConfig_Lock(p, name)
    \/ BorrowUntouched /\ \E p \in Procs : unregisterConnConfig_Delete(p)
    \/ BorrowUntouched /\ \E p \in Procs : unregisterConnConfig_Unlock(p)
    \/ BorrowUntouched /\ \E p \in Procs, name \in Names : Connect_Lock(p, name)
    \/ BorrowUntouched /\ \E p \in Procs : Connect_Lookup(p)
    \/ BorrowUntouched /\ \E p \in Procs : Connect_Unlock(p)
    \/ BorrowUntouched /\ \E p \in Procs : Connect_ParseFails(p)
    \/ BorrowUntouched /\ \E p \in Procs : Connect_Parse(p)
    \/ BorrowUntouched /\ \E p \in Procs : Connect_Native(p)
    \/ BorrowUntouched /\ \E p \in Procs : connector_Connect_NativeFails(p)
    \/ BorrowUntouched /\ \E p \in Procs : connector_Connect_Native(p)
    \/ BorrowUntouched /\ \E p \in Procs, e \in {Nil} \cup HookErrs :
          connector_Connect_Hook(p, e)

SpecLocks == Init /\ [][NextLocks]_vars

(***************************************************************************)
(* Claims about the borrow protocol (specification Spec).                  *)
(***************************************************************************)
AcquireStages == {"acq_check", "acq_insert", "acq_unlock"}

\* where a caller is between Lock and Unlock of fakeTxMutex / configMutex
LockedStages == {"acq_insert", "acq_unlock", "rel_lookup", "rel_unlock"}
CLockedStages == {"reg_insert", "reg_unlock", "unreg_delete", "unreg_unlock",
                  "con_lookup", "con_unlock"}

\* the step in which caller p leaves position at
StepFrom(p, at) == pc[p] = at /\ pc'[p] # at

C1_Parked ==
    \A p \in Procs : pc[p] = "rel_rollback" =>
        /\ ltx[p] \in TxIds
        /\ ~txs[ltx[p]].done
        /\ txs[ltx[p]].conn = lconn[p]
        /\ pool[lconn[p]] = "inuse"

C1_ReleaseStep ==
    \A p \in Procs : StepFrom(p, "rel_rollback") =>
        /\ lastRet' = [op |-> "release", err |-> Nil]
        /\ txs'[ltx[p]].done
        /\ txs[ltx[p]].rollbacks = 0 /\ txs'[ltx[p]].rollbacks = 1
        /\ pool'[lconn[p]] = "idle"
        /\ \A t \in 1..Len(txs') : txs'[t].conn = lconn[p] => txs'[t].done

\* C1: a ReleaseConn that finds the session's entry (the release that follows
\* a successful AcquireConn) holds a parked transaction that is still open on
\* that session; its last step rolls that transaction back, for the first and
\* only time, leaves the connection idle in the pool with no transaction open
\* on it, and returns nil.
C1_BorrowThenRelease == []C1_Parked /\ [][C1_ReleaseStep]_vars

C1_Witness ==
    /\ lastRet = [op |-> "release", err |-> Nil]
    /\ \E s \in PgxConns : nRel[s] = 1 /\ nAcq[s] = 1 /\ pool[s] = "idle"

C2_AtMostOnePerBorrow == \A s \in PgxConns : nRel[s] <= nAcq[s]

C2_LookupStep ==
    \A p \in Procs : StepFrom(p, "rel_lookup") =>
        (lok'[p] <=> lconn[p] \in DOMAIN fakeTxConns)

C2_ReturnStep ==
    \A p \in Procs :
        /\ StepFrom(p, "rel_unlock") /\ ~lok[p] =>
              /\ pc'[p] = "idle"
              /\ lastRet' = [op |-> "release", err |-> ErrNotAcquired]
        /\ StepFrom(p, "rel_rollback") => lastRet'.err \in {Nil, ErrNotAcquired}
        /\ (pc[p] \in {"rel_unlock", "rel_rollback"} /\ pc'[p] = "idle"
                /\ lastRet'.err = Nil) => lok[p]

\* C2: a ReleaseConn whose session has no registry entry when it looks it up
\* returns the not-acquired error (a second release with no borrow in between,
\* or a release of a session never borrowed); a release never fails in another
\* way; and for every session the releases that returned nil never outnumber
\* the borrows recorded for it.
C2_ReleaseNotAcquired ==
    []C2_AtMostOnePerBorrow /\ [][C2_LookupStep /\ C2_ReturnStep]_vars

C2_Witness ==
    /\ lastRet = [op |-> "release", err |-> ErrNotAcquired]
    /\ \E s \in PgxConns : nAcq[s] = 1 /\ nRel[s] = 1 /\ s \notin DOMAIN fakeTxConns
    /\ \E s \in PgxConns : nAcq[s] = 0 /\ pool[s] # "unopened"

\* the transactions that hold session s borrowed: the one parked in the
\* registry, and the one a ReleaseConn has taken out and not yet rolled back
Borrowing(s) ==
    (IF s \in DOMAIN fakeTxConns THEN {fakeTxConns[s]} ELSE {})
    \cup {ltx[p] : p \in {q \in Procs : /\ pc[q] \in {"rel_unlock", "rel_rollback"}
                                        /\ lok[q] /\ lconn[q] = s}}

\* C3: while a session is borrowed, the transaction that parks it is open and
\* its connection is in use in the pool, so the pool gives it to no one else:
\* exactly one transaction holds it, every AcquireConn in progress on that
\* session is the one that started this very transaction, and the registry
\* insert of an AcquireConn never finds an entry to overwrite.
C3_ExclusiveBorrow ==
    /\ \A s \in PgxConns :
        /\ Cardinality(Borrowing(s)) <= 1
        /\ \A t \in Borrowing(s) :
            /\ t \in TxIds
            /\ txs[t].conn = s
            /\ ~txs[t].done
            /\ pool[s] = "inuse"
            /\ OpenTxOn(s) = {t}
            /\ \A q \in Procs :
                 (pc[q] \in AcquireStages /\ lconn[q] = s) => ltx[q] = t
    /\ \A p \in Procs :
        pc[p] = "acq_insert" => lconn[p] \notin DOMAIN fakeTxConns
    /\ \A p, q \in Procs :
        (p # q /\ pc[p] \in AcquireStages /\ pc[q] \in AcquireStages
              /\ lconn[p] # NoConn) => lconn[p] # lconn[q]

C3_Witness ==
    \E s \in DOMAIN fakeTxConns, p \in Procs :
        /\ pc[p] = "acq_insert"
        /\ lconn[p] \in PgxConns \ {s}
        /\ \E q \in Procs : q # p /\ pc[q] = "idle"

C4_RegistryIsPgx ==
    /\ \A s \in DOMAIN fakeTxConns :
        s \in PgxConns /\ txs[fakeTxConns[s]].kind = "fakeTx"
    /\ \A p \in Procs :
        (pc[p] \in AcquireStages /\ txs[ltx[p]].conn \in ForeignConns) =>
            pc[p] = "acq_check" /\ lconn[p] = NoConn

C4_NotPgxStep ==
    \A p \in Procs : (StepFrom(p, "acq_check") /\ lconn[p] = NoConn) =>
        /\ pc'[p] = "idle"
        /\ lastRet' = [op |-> "acquire", err |-> ErrNotPgx]
        /\ txs[ltx[p]].rollbacks = 0
        /\ txs'[ltx[p]].done /\ txs'[ltx[p]].rollbacks = 1
        /\ pool'[txs[ltx[p]].conn] = "idle"
        /\ fakeTxConns' = fakeTxConns

\* C4: when db.BeginTx succeeds on a connection of another driver, the marker's
\* slot is still empty, and AcquireConn then rolls back the transaction it
\* started (once), returns ErrNotPgx and leaves the registry as it was; no
\* registry entry ever names a foreign connection or its transaction.
C4_ForeignBorrowFails == []C4_RegistryIsPgx /\ [][C4_NotPgxStep]_vars

C4_Witness ==
    /\ lastRet = [op |-> "acquire", err |-> ErrNotPgx]
    /\ \E t \in TxIds : txs[t].kind = "foreignTx" /\ txs[t].done /\ txs[t].rollbacks = 1
    /\ pool["f1"] = "idle"

\* the ReleaseConn calls that have taken the entry of session s out of the
\* registry and have not returned yet
Releasing(s) ==
    {p \in Procs : pc[p] \in {"rel_unlock", "rel_rollback"} /\ lok[p] /\ lconn[p] = s}

\* borrows of s recorded, less those a successful ReleaseConn has taken back
Outstanding(s) == nAcq[s] - nRel[s] - Cardinality(Releasing(s))

C13_KeyIffBorrowed ==
    /\ DOMAIN fakeTxConns \subseteq PgxConns
    /\ \A s \in PgxConns :
        /\ Outstanding(s) \in {0, 1}
        /\ s \in DOMAIN fakeTxConns <=> Outstanding(s) = 1

C13_Steps ==
    /\ \A p \in Procs :
        \* the insert of a borrow adds one entry, for a session that had none
        /\ StepFrom(p, "acq_insert") =>
              /\ lconn[p] \notin DOMAIN fakeTxConns
              /\ fakeTxConns' = Insert(fakeTxConns, lconn[p], ltx[p])
        \* a successful AcquireConn returns a session that is a key, parked by
        \* the transaction this call began
        /\ (pc[p] \in AcquireStages /\ pc'[p] = "idle" /\ lastRet'.err = Nil) =>
              /\ lconn[p] \in DOMAIN fakeTxConns'
              /\ fakeTxConns'[lconn[p]] = ltx[p]
        \* an AcquireConn that fails leaves the registry alone
        /\ (pc[p] \in {"idle", "acq_begin", "acq_check"} /\ pc'[p] = "idle"
                /\ (\A q \in Procs \ {p} : pc'[q] = pc[q])
                /\ lastRet'.op = "acquire" /\ lastRet'.err # Nil) =>
              fakeTxConns' = fakeTxConns
        \* the lookup of a release removes the entry it finds, and only that
        /\ StepFrom(p, "rel_lookup") =>
              fakeTxConns' = (IF lconn[p] \in DOMAIN fakeTxConns
                              THEN Delete(fakeTxConns, lconn[p]) ELSE fakeTxConns)
        \* when a successful ReleaseConn returns, the session is not a key
        /\ (StepFrom(p, "rel_rollback") /\ lastRet'.err = Nil) =>
              lconn[p] \notin DOMAIN fakeTxConns'
    \* nothing else changes the registry
    /\ fakeTxConns' # fakeTxConns =>
          \E p \in Procs : StepFrom(p, "acq_insert") \/ StepFrom(p, "rel_lookup")

\* C13: a session is a key of fakeTxConns exactly while a borrow of it is
\* outstanding: recorded by an AcquireConn and not taken back by a ReleaseConn
\* that found it.  Each successful AcquireConn makes one insert, of a key that
\* was absent, and returns with the session a key; each ReleaseConn that finds
\* the entry removes it in its one lookup and returns with the session not a
\* key; failed calls and all other steps leave the registry as it is.
C13_RegistryIffBorrowed == []C13_KeyIffBorrowed /\ [][C13_Steps]_vars

C13_Witness ==
    /\ \A p \in Procs : pc[p] = "idle"
    /\ \E s \in PgxConns :
        /\ s \in DOMAIN fakeTxConns /\ nAcq[s] = 2 /\ nRel[s] = 1
        /\ \E u \in PgxConns \ {s} : u \notin DOMAIN fakeTxConns /\ nAcq[u] = 0

ReleaseStages == {"rel_lock", "rel_lookup", "rel_unlock", "rel_rollback"}

C15_Step ==
    \A p \in Procs :
        \* the first step of ReleaseConn(db, s)
        /\ (pc[p] = "idle" /\ pc'[p] = "rel_lock") =>
              LET s == lconn'[p]
              IN  /\ (sess[s].busy \/ sess[s].txStatus # "I") => sess'[s].closed
                  /\ (~sess[s].busy /\ sess[s].txStatus = "I") => sess'[s] = sess[s]
                  /\ \A u \in PgxConns \ {s} : sess'[u] = sess[u]
        \* no later step of ReleaseConn touches a session
        /\ (\E at \in ReleaseStages : StepFrom(p, at)) => sess' = sess

\* C15: ReleaseConn closes the session it is given when, on entry, the
\* session reports itself busy or its transaction status is not idle; it
\* leaves a session that is idle and not busy exactly as it is, and no other
\* step of ReleaseConn closes or changes any session.
C15_ForceClose == [][C15_Step]_vars

C15_Witness ==
    \E p \in Procs :
        /\ pc[p] = "rel_rollback"
        /\ sess[lconn[p]].closed /\ sess[lconn[p]].txStatus = "T"
        /\ \E u \in PgxConns \ {lconn[p]} :
              /\ pool[u] = "idle" /\ ~sess[u].closed /\ nRel[u] = 1

InCall == AcquireStages \cup ReleaseStages

C17_Released ==
    \A p \in Procs :
        /\ fakeTxMutex = p => pc[p] \in LockedStages
        /\ pc[p] = "idle" => fakeTxMutex # p
        /\ ~(fakeTxMutex = p /\ configMutex = p)

C17_UnlockSteps ==
    \A p \in Procs :
        \* the three places that unlock: AcquireConn, ReleaseConn with the entry
        \* found, ReleaseConn on the not-acquired path
        /\ (StepFrom(p, "acq_unlock") \/ StepFrom(p, "rel_unlock")) =>
              (fakeTxMutex = p /\ fakeTxMutex' = NoProc)
        \* no step of the borrow protocol takes configMutex
        /\ configMutex' = configMutex

\* C17: a caller holds fakeTxMutex only between a Lock and the Unlock of
\* AcquireConn or ReleaseConn, and each path through them, the not-acquired
\* path of ReleaseConn included, unlocks before it returns; AcquireConn and
\* ReleaseConn never take configMutex, so no caller holds both mutexes.  Under
\* fair scheduling every AcquireConn that is past db.BeginTx and every
\* ReleaseConn returns (and so has released the mutex if it held it), whatever
\* the other caller does and whichever sessions the two calls are about.
C17_LockAlwaysReleased ==
    /\ []C17_Released
    /\ [][C17_UnlockSteps]_vars
    /\ \A p \in Procs : (pc[p] \in InCall) ~> (pc[p] = "idle")

C17_Witness ==
    \E p, q \in Procs :
        /\ pc[p] = "rel_lock" /\ fakeTxMutex = q /\ pc[q] = "acq_insert"
        /\ lconn[p] # lconn[q]
        /\ lconn[p] \in DOMAIN fakeTxConns

(***************************************************************************)
(* Claims about the configuration registry (specification SpecCfg).        *)
(***************************************************************************)
CStepFrom(p, at) == cpc[p] = at /\ cpc'[p] # at

\* C5: the key a registerConnConfig is about to store under is not the key of
\* a configuration that is still registered, so no registration replaces
\* another one's entry.
C5_KeysUnique ==
    \A p \in Procs : cpc[p] = "reg_insert" =>
        ConnStr(Cardinality(DOMAIN configs)) \notin DOMAIN configs

C6_ConnectUsesRegistered ==
    \A p \in Procs :
        /\ cpc[p] = "con_parse" => cloc[p].reg = NoCfg
        /\ cpc[p] = "con_native" =>
              IF cloc[p].reg # NoCfg
              THEN cloc[p].cfg = cloc[p].reg /\ ~cloc[p].parsed
              ELSE /\ cloc[p].parsed
                   /\ cloc[p].cfg = ParseConfig(cloc[p].name).cfg
                   /\ ParseConfig(cloc[p].name).err = Nil

C6_Steps ==
    \A p \in Procs :
        /\ CStepFrom(p, "unreg_delete") => cloc[p].name \notin DOMAIN configs'
        /\ CStepFrom(p, "con_lookup") =>
              cloc'[p].reg = (IF cloc[p].name \in DOMAIN configs
                              THEN configs[cloc[p].name] ELSE NoCfg)
        /\ (CStepFrom(p, "con_native") \/ CStepFrom(p, "con_parse")) /\ cpc'[p] = "idle" =>
              /\ clast'.op = "connect"
              /\ clast'.parsed = (cloc[p].reg = NoCfg)
              /\ clast'.err # ErrParse => clast'.cfg = cloc[p].cfg

\* C6: a connect by a name that is a registered key when the table is read
\* connects with the configuration stored under it and never parses the name;
\* unregistering removes the key, and a connect that reads the table after that
\* finds nothing and parses the literal name.
C6_OpenByName == []C6_ConnectUsesRegistered /\ [][C6_Steps]_vars

C6_Witness ==
    /\ clast.op = "connect" /\ clast.parsed /\ clast.err = ErrParse
    /\ clast.key = ConnStr(0)
    /\ nReg = 1
    /\ configs = <<>>

C12_Returned ==
    clast.op = "connector.Connect" =>
        /\ clast.hooks = (IF clast.session THEN 1 ELSE 0)
        /\ clast.adapter => (clast.session /\ clast.hooks = 1 /\ clast.hookErr = Nil
                                /\ clast.err = Nil)
        /\ clast.hookErr # Nil => (clast.err = clast.hookErr /\ ~clast.adapter)
        /\ ~clast.session => (clast.err = ErrConnect /\ ~clast.adapter)

C12_HookStep ==
    \A p \in Procs :
        /\ cpc[p] = "oc_hook" => (cloc[p].session /\ cloc[p].hooks = 0)
        /\ CStepFrom(p, "oc_hook") =>
              (cpc'[p] = "idle" /\ clast'.op = "connector.Connect" /\ clast'.hooks = 1)

EntryPoints == {"prepare", "begin", "exec", "query", "ping", "close"}
CheckedEntryPoints == {"prepare", "begin", "exec", "query", "ping"}

\* C7 as stated: whichever entry point ran last, if the session reported
\* itself closed on entry the call returned the bad-connection signal and made
\* no native call.
C7_EveryEntryPointChecksClosed ==
    (call.op \in EntryPoints /\ call.wasClosed) =>
        (call.err = ErrBadConn /\ call.native = <<>>)

\* C7 amended: prepare, begin, execute, query and ping return the
\* bad-connection signal without a native call when the session reported
\* itself closed on entry, and make their native call when it did not (unless
\* begin stops earlier); close makes no such check: it always calls the native
\* close, once, and returns what that returns.
C7_ClosedCheckExceptClose ==
    /\ (call.op \in CheckedEntryPoints /\ call.wasClosed) =>
          (call.err = ErrBadConn /\ call.native = <<>>)
    /\ (call.op \in {"prepare", "exec", "query", "ping"} /\ ~call.wasClosed) =>
          call.native # <<>>
    /\ call.op = "close" => (call.native = <<"Close">> /\ call.err = call.nativeErr)

C7_Witness ==
    call.op = "ping" /\ call.wasClosed /\ call.err = ErrBadConn /\ call.native = <<>>

Count(seq, x) == Cardinality({i \in 1..Len(seq) : seq[i] = x})

\* C8: an ExecContext or QueryContext on an open session calls the native
\* exec (query) exactly once; if that call fails with an error that is safe
\* to retry the adapter returns the bad-connection signal, and if it fails
\* with any other error the adapter returns that very error.
C8_RetryClassification ==
    (call.op \in {"exec", "query"} /\ ~call.wasClosed) =>
        /\ Count(call.native, IF call.op = "exec" THEN "Exec" ELSE "Query") = 1
        /\ (call.nativeErr # Nil /\ SafeToRetry(call.nativeErr)) => call.err = ErrBadConn
        /\ (call.nativeErr # Nil /\ ~SafeToRetry(call.nativeErr)) => call.err = call.nativeErr
        /\ call.nativeErr # Nil => call.native \in {<<"Exec">>, <<"Query">>}

C8_Witness ==
    /\ call.op = "exec" /\ ~call.wasClosed
    /\ call.nativeErr = ErrRetryable /\ call.err = ErrBadConn

Supported ==
    {LevelDefault, LevelReadUncommitted, LevelReadCommitted, LevelRepeatableRead,
     LevelSnapshot, LevelSerializable}

\* C9 as stated: a begin whose isolation level is not supported makes no
\* native begin call and fails with the unsupported-isolation error naming
\* the level.
C9_UnsupportedIsolationFails ==
    (call.op = "begin" /\ call.iso \notin Supported) =>
        /\ Count(call.native, "BeginTx") = 0
        /\ call.err = ErrUnsupportedIsolation(call.iso)

\* C9 amended: a begin whose isolation level is not supported never makes a
\* native begin call; on a session that does not report itself closed it
\* fails with the unsupported-isolation error naming the level, and on a
\* closed session the closed check comes first and it fails with the
\* bad-connection signal.
C9_UnsupportedIsolationNeverBegins ==
    (call.op = "begin" /\ call.iso \notin Supported) =>
        /\ Count(call.native, "BeginTx") = 0
        /\ call.tx = "none"
        /\ call.err = IF call.wasClosed THEN ErrBadConn
                      ELSE ErrUnsupportedIsolation(call.iso)

C9_Witness ==
    /\ call.op = "begin" /\ call.iso = LevelLinearizable /\ ~call.wasClosed
    /\ call.err = "unsupported isolation: 7"

\* C10: after QueryContext the native iterator has been advanced exactly once;
\* the first Rows.Next does not advance it again and every later Rows.Next
\* advances it once; the rows delivered so far are r1..rk in server order, the
\* k-th successful Rows.Next having delivered rk.
C10_PrefetchOnceInOrder ==
    (cur.active \/ cur.nextCalls > 0) =>
        /\ cur.nnext = (IF cur.nextCalls = 0 THEN 1 ELSE cur.nextCalls)
        /\ Len(cur.delivered) <= Len(cur.rows)
        /\ \A k \in 1..Len(cur.delivered) : cur.delivered[k] = cur.rows[k].id
        /\ Len(cur.delivered) =
             cur.nextCalls - cur.ended - cur.scanErrs - cur.panics

C10_Witness ==
    /\ cur.active /\ Len(cur.rows) = 2 /\ cur.delivered = <<1, 2>>
    /\ cur.nextCalls = 2 /\ cur.nnext = 2

TxCalls == {"begin", "commit", "rollback"}

\* C14 as stated: a begin that carries the borrow marker makes no native
\* begin call, writes the session into the marker's slot and returns the no-op
\* transaction, whose Commit and Rollback return nil without a native call.
C14_MarkerAlwaysBorrows ==
    (call.op \in TxCalls /\ call.marker) =>
        /\ call.native = <<>>
        /\ call.err = Nil
        /\ call.wrote
        /\ call.tx = "fakeTx"

\* C14 amended: a begin that carries the borrow marker never makes a native
\* begin call.  On a session that does not report itself closed it writes the
\* session into the marker's slot and returns the no-op transaction, whose
\* Commit and Rollback return nil without a native call; on a closed session
\* the closed check comes first: it returns the bad-connection signal, writes
\* nothing into the slot and returns no transaction.
C14_MarkerBorrowsUnlessClosed ==
    (call.op \in TxCalls /\ call.marker) =>
        /\ call.native = <<>>
        /\ IF call.wasClosed
           THEN call.op = "begin" /\ call.err = ErrBadConn /\ ~call.wrote
                    /\ call.tx = "none"
           ELSE call.err = Nil /\ call.wrote /\ call.tx = "fakeTx"

C14_Witness ==
    /\ call.op = "rollback" /\ call.marker /\ call.tx = "fakeTx" /\ call.wrote
    /\ call.native = <<>> /\ call.err = Nil

(***************************************************************************)
(* Claims about both registries (specification SpecLocks).                 *)
(***************************************************************************)
C16_Holders ==
    \A p \in Procs :
        /\ fakeTxMutex = p <=> pc[p] \in LockedStages
        /\ configMutex = p <=> cpc[p] \in CLockedStages

C16_Steps ==
    /\ \A p \in Procs :
        \* the steps a caller takes with fakeTxMutex held change no pool
        \* connection, no transaction and no session
        /\ (fakeTxMutex = p /\ pc'[p] # pc[p]) =>
              (pool' = pool /\ txs' = txs /\ sess' = sess)
        \* BeginTx, Close and Rollback are called with fakeTxMutex not held
        /\ (pc'[p] # pc[p] /\ (pool' # pool \/ txs' # txs \/ sess' # sess)) =>
              (fakeTxMutex # p /\ fakeTxMutex' # p)
        \* the table is read and written by the holder of fakeTxMutex
        /\ (StepFrom(p, "acq_insert") \/ StepFrom(p, "rel_lookup")) =>
              (fakeTxMutex = p /\ fakeTxMutex' = p)
        \* ParseConfig, ConnectConfig and AfterConnect run with configMutex
        \* not held
        /\ (\E at \in {"con_parse", "con_native", "oc_hook"} : CStepFrom(p, at)) =>
              (configMutex # p /\ configMutex' # p)
        /\ (cpc[p] = "idle" /\ clast' # clast) => configMutex # p
        \* the table is read and written by the holder of configMutex
        /\ (\E at \in {"reg_insert", "unreg_delete", "con_lookup"} : CStepFrom(p, at)) =>
              (configMutex = p /\ configMutex' = p)
    /\ fakeTxConns' # fakeTxConns =>
          \E p \in Procs : StepFrom(p, "acq_insert") \/ StepFrom(p, "rel_lookup")
    /\ configs' # configs =>
          \E p \in Procs : CStepFrom(p, "reg_insert") \/ CStepFrom(p, "unreg_delete")

\* C16: a caller holds fakeTxMutex (configMutex) exactly between the Lock and
\* the Unlock of the function it is in; the steps it takes there are the
\* insert, lookup and delete on the table and nothing else, and every insert,
\* lookup and delete on a table is such a step; every native call (BeginTx,
\* Close, Rollback; ParseConfig, ConnectConfig, AfterConnect) is made by a
\* caller that holds neither mutex.
C16_LocksGuardTablesOnly == []C16_Holders /\ [][C16_Steps]_vars

C16_Witness ==
    \E p, q \in Procs :
        /\ fakeTxMutex = p /\ pc[p] = "rel_lookup" /\ lconn[p] \in DOMAIN fakeTxConns
        /\ pc[q] = "rel_rollback"

(***************************************************************************)
(* Claims about the row cursor alone (specification SpecRows).             *)
(***************************************************************************)
\* the step that is one call of Rows.Next
NextCall == call'.op = "next" /\ cur'.nextCalls = cur.nextCalls + 1

C11_AtEnd ==
    call.op = "next" =>
        /\ cur.rows = <<>> => (call.err = EOF /\ cur.nerr = Nil)
        /\ call.err = EOF =>
              cur.delivered = [k \in 1..Len(cur.rows) |-> cur.rows[k].id]

C11_NextStep ==
    NextCall =>
        IF Len(cur.delivered) = Len(cur.rows)
        THEN call'.err = (IF cur.nerr = Nil THEN EOF ELSE cur.nerr)
        ELSE call'.err # EOF

\* C11: a Rows.Next that finds every row of the result already handed out
\* returns io.EOF when the native iterator ended without an error and returns
\* the iterator's error otherwise; a Rows.Next with a row still to hand out
\* never returns io.EOF; and on the cursor of a result with no rows the first
\* Rows.Next returns io.EOF, the iterator having ended without an error.
C11_EndOfData == []C11_AtEnd /\ [][C11_NextStep]_vars

C11_Witness ==
    /\ call.op = "next" /\ call.err = EOF
    /\ cur.rows = <<>> /\ cur.nextCalls = 1 /\ cur.nerr = Nil
    /\ Len(cur.cols) = 2

\* the last Rows.Next found a row and went into the decode loop
RowDecoded == call.op = "next" /\ cur.nextCalls > 0 /\ cur.ended = 0

\* the columns sent in binary whose wire type the decoder switch does not name
UnmappedBinary(cols) ==
    {i \in 1..Len(cols) : cols[i].format = BinaryFormatCode /\ cols[i].oid \notin MappedOIDs}

\* C18: a Rows.Next that decodes a row with a column sent in binary whose wire
\* type has no decode strategy of its own (the generic text fallback) returns
\* the scan error: it delivers no row and it does not panic.
C18_UnmappedBinaryFailsScan ==
    (RowDecoded /\ UnmappedBinary(cur.cols) # {}) =>
        /\ call.err = ErrScan
        /\ cur.panics = 0
        /\ cur.delivered = <<>>

\* the four per-column arrays of the cursor
Arrays(r) == <<r.values, r.driverValuers, r.textDecoders, r.binaryDecoders>>

C19_Allocated ==
    cur.active =>
        /\ cur.allocs = (IF cur.nextCalls = 0 THEN 0 ELSE 1)
        /\ cur.nextCalls = 0 => \A i \in 1..4 : Arrays(cur)[i].isNil
        /\ cur.nextCalls > 0 =>
              /\ \A i \in 1..4 :
                    /\ ~Arrays(cur)[i].isNil
                    /\ Len(Arrays(cur)[i].elems) = Len(cur.cols)
              /\ \A k \in 1..Len(cur.cols) :
                    /\ cur.values.elems[k] = ValueOf(cur.cols[k].oid)
                    /\ cur.driverValuers.elems[k] = cur.values.elems[k]
                    /\ cur.textDecoders.elems[k] = cur.values.elems[k]
                    /\ cur.binaryDecoders.elems[k] \in {cur.values.elems[k], NilDecoder}

C19_NextStep ==
    NextCall =>
        /\ cur.nextCalls = 0 => cur'.allocs = cur.allocs + 1
        /\ cur.nextCalls > 0 => (Arrays(cur') = Arrays(cur) /\ cur'.allocs = cur.allocs)
        /\ cur'.cols = cur.cols

\* C19: the four per-column arrays of a cursor are nil until its first
\* Rows.Next, which makes them, once; from then on each has as many elements
\* as the result has columns, element k belonging to column k, and no later
\* Rows.Next makes them again or changes them, also when the result has no
\* columns or no rows.
C19_ArraysAllocatedOnce == []C19_Allocated /\ [][C19_NextStep]_vars

C19_Witness ==
    /\ cur.active /\ cur.cols = <<>> /\ cur.rows = <<>>
    /\ cur.nextCalls = 2 /\ cur.allocs = 1
    /\ ~cur.values.isNil /\ cur.values.elems = <<>>

\* a ReleaseConn that has found no entry for its session and is about to
\* return the not-acquired error
FailingRelease(p) == pc[p] = "rel_unlock" /\ ~lok[p]

C20_NotForced == \A p \in Procs : FailingRelease(p) => ~lforced[p]

C20_ForcedIsClosed ==
    \A p \in Procs :
        /\ (pc[p] \in ReleaseStages /\ lforced[p]) => sess[lconn[p]].closed
        /\ pc[p] \notin ReleaseStages => ~lforced[p]

C20_RegistrySteps ==
    \A p \in Procs :
        \* the lookup that finds nothing
        /\ (StepFrom(p, "rel_lookup") /\ ~lok'[p]) =>
              /\ lconn[p] \notin DOMAIN fakeTxConns
              /\ UNCHANGED <<fakeTxConns, sess, pool, txs, nAcq, nRel>>
        \* the unlock and the return of the error
        /\ (FailingRelease(p) /\ StepFrom(p, "rel_unlock")) =>
              /\ lastRet' = [op |-> "release", err |-> ErrNotAcquired]
              /\ fakeTxMutex' = NoProc
              /\ UNCHANGED <<fakeTxConns, sess, pool, txs, nAcq, nRel>>
        \* the steps before the lookup leave the registry alone
        /\ ((pc[p] = "idle" /\ pc'[p] = "rel_lock") \/ StepFrom(p, "rel_lock")) =>
              UNCHANGED <<fakeTxConns, pool, txs, nAcq, nRel>>

C20_CheckStep ==
    \A p \in Procs :
        (pc[p] = "idle" /\ pc'[p] = "rel_lock") =>
            LET s == lconn'[p]
            IN  /\ lforced'[p] = (MustForceClose(s) /\ ~sess[s].closed)
                /\ ~MustForceClose(s) => sess' = sess
                /\ MustForceClose(s) => sess' = [sess EXCEPT ![s] = Closed(sess[s])]

\* C20 as stated: a ReleaseConn that fails with not-acquired leaves the
\* registry unchanged and has not closed or changed the session it was
\* given, whatever that session reported.
C20_NotAcquiredHasNoEffect == []C20_NotForced /\ [][C20_RegistrySteps]_vars

\* C20, amended: a ReleaseConn that fails with not-acquired leaves the
\* registry, the pool and the parked transactions unchanged, and leaves the
\* session it was given unchanged when that session was idle and not busy
\* on entry; a session that reported itself busy or in a non-idle
\* transaction status has been closed by the call before the lookup, and
\* stays closed when the call then fails with not-acquired.
C20_NotAcquiredKeepsRegistry ==
    []C20_ForcedIsClosed /\ [][C20_RegistrySteps /\ C20_CheckStep]_vars

C20_Witness ==
    \E p \in Procs :
        /\ FailingRelease(p) /\ lforced[p]
        /\ sess[lconn[p]].closed /\ lconn[p] \notin DOMAIN fakeTxConns

\* column k of the cursor came back in binary, and binary is what the
\* adapter's table asks for its wire type
AskedBinary(r, k) ==
    /\ r.cols[k].format = BinaryFormatCode
    /\ RequestedFormat(r.cols[k].oid) = BinaryFormatCode

C21_TableCovered ==
    \A oid \in databaseSQLResultFormats :
        /\ oid \in MappedOIDs
        /\ BinaryDecoderOf(oid) = ValueOf(oid)
        /\ BinaryDecoderOf(oid) \notin {NilDecoder, "pgtype.GenericText"}

C21_CursorCovered ==
    /\ cur.nextCalls > 0 =>
          \A k \in 1..Len(cur.cols) :
              AskedBinary(cur, k) =>
                  /\ cur.binaryDecoders.elems[k] # NilDecoder
                  /\ cur.binaryDecoders.elems[k] = cur.values.elems[k]
    \* a Rows.Next that met a missing binary decoder met it at a column the
    \* adapter did not ask for in binary
    /\ cur.panics > 0 =>
          \E k \in 1..Len(cur.cols) :
              /\ cur.cols[k].format = BinaryFormatCode
              /\ ~AskedBinary(cur, k)
              /\ cur.binaryDecoders.elems[k] = NilDecoder

\* C21: every wire type of the databaseSQLResultFormats table is named by the
\* decoder switch of Rows.Next, which installs a binary decoder for it; so a
\* column that came back in binary because the table asks for it always has
\* its binary decoder, and no Rows.Next fails on a missing decoder at such a
\* column.
C21_AllowlistHasBinaryDecoders == C21_TableCovered /\ C21_CursorCovered

C21_Witness ==
    /\ cur.active /\ cur.panics = 0 /\ cur.scanErrs = 0
    /\ cur.nextCalls > 0
    /\ Len(cur.cols) = 2
    /\ cur.cols[1] = [oid |-> "Int4OID", format |-> BinaryFormatCode]
    /\ cur.cols[2] = [oid |-> "JSONOID", format |-> TextFormatCode]
    /\ \A k \in 1..2 : cur.cols[k].format = RequestedFormat(cur.cols[k].oid)
    /\ cur.binaryDecoders.elems[1] = "pgtype.Int4"
    /\ Len(cur.delivered) >= 1

====
